---------------------------- MODULE Spec2Model ----------------------------
(***************************************************************************)
(* A model of the marketing-agent repository: the LLM provider variants    *)
(* (llm_client.py), the client that owns one of them, the file reader      *)
(* (file_reader.py) and the agent that drives both per file (agent.py).    *)
(*                                                                         *)
(* Conventions.  A Python Optional is a sequence of length 0 (None) or 1.  *)
(* A Python dict is a function whose domain is its set of keys, so that    *)
(* d[k] on a missing key and d.get(k) can be told apart.  A call's outcome *)
(* is a record saying whether it returned or raised, and what.             *)
(***************************************************************************)
EXTENDS Integers, Sequences, FiniteSets, TLC

VARIABLES
    provider,   \* the provider instance held by the LLMClient (Optional)
    pc,         \* where the running operation stands
    mode,       \* which agent operation is running
    disk,       \* the input directory: path -> file state
    files,      \* the paths the running operation iterates over
    idx,        \* position in files
    cur,        \* FileContent read by the process_single_file call in progress
    inflight,   \* HTTP requests issued and not yet answered
    posts,      \* HTTP POSTs issued so far
    sent,       \* payload of the last POST (Optional)
    results,    \* ProcessingResults produced so far
    ret,        \* outcome of the operation (Optional)
    received,   \* what the transport has delivered for the request in progress
    words,      \* tokens still to be yielded by a simulated stream
    out,        \* fragments yielded to the consumer so far
    calls,      \* generate_response calls made so far
    provEnd,    \* how the provider's stream_response ended (Optional)
    config,     \* configuration handed to the constructor
    request     \* arguments of the generate_response call in progress

vars == <<provider, pc, mode, disk, files, idx, cur, inflight, posts, sent,
          results, ret, received, words, out, calls, provEnd, config, request>>

----------------------------------------------------------------------------
(* Bounds of the model. *)

MaxFiles == 2
MaxMsgs == 3
MaxLines == 3
MaxContentLen == 3
ReadTime == 1
CallTime == 1

(* Program constants. *)

DefaultMaxTokens == 1000
DefaultTemperatureTenths == 7
MaxFileSize == 1048576

----------------------------------------------------------------------------
(* Optional values, outcomes of calls, Python dict access. *)

None == <<>>

Some(x) == <<x>>

Return(v) == [kind |-> "return", exc |-> "", handler |-> "", value |-> <<v>>]

Raise(e, h) == [kind |-> "raise", exc |-> e, handler |-> h, value |-> <<>>]

Get(d, k) == IF k \in DOMAIN d THEN Some(d[k]) ELSE None

GetDefault(d, k, dflt) == IF k \in DOMAIN d THEN d[k] ELSE dflt

----------------------------------------------------------------------------
(* The transport: requests.post, raise_for_status and response.json().     *)
(* An HTTP exchange ends in a network failure (connection error, timeout)  *)
(* or in a response with a status and a body; the body is JSON (Some) or   *)
(* not (None).                                                             *)

NetworkFailure(e) == [kind |-> "network", exc |-> e, status |-> 0, body |-> None]

Response(status, body) == [kind |-> "response", exc |-> "", status |-> status, body |-> body]

RequestExceptions == {"ConnectionError", "Timeout", "HTTPError", "ChunkedEncodingError"}

RaisesForStatus(status) == 400 <= status /\ status < 600

\* Transport without response.raise_for_status()
Transport_NoStatusCheck(outcome) ==
    IF outcome.kind = "network" THEN Raise(outcome.exc, "RequestException")
    ELSE IF outcome.body = None THEN Raise("JSONDecodeError", "RequestException")
    ELSE Return(outcome.body[1])

\* The three steps of every generate_response try block up to `data`.
Transport(outcome) ==
    IF outcome.kind = "network" THEN Raise(outcome.exc, "RequestException")
    ELSE IF RaisesForStatus(outcome.status) THEN Raise("HTTPError", "RequestException")
    ELSE IF outcome.body = None THEN Raise("JSONDecodeError", "RequestException")
    ELSE Return(outcome.body[1])

----------------------------------------------------------------------------
(* LLMResponse and the provider variants' generate_response.               *)

LLMResponse(content, model, usage, finish_reason, tag) ==
    [content |-> content, model |-> model, usage |-> usage,
     finish_reason |-> finish_reason, provider |-> tag]

\* the OpenAI payload falling back to the options stored at construction
OpenAIPayload_StoredOptions(self, messages, kwargs) ==
    [model |-> self.model, messages |-> messages,
     max_tokens |-> GetDefault(kwargs, "max_tokens", self.kwargs.max_tokens),
     temperature |-> GetDefault(kwargs, "temperature", self.kwargs.temperature),
     stream |-> FALSE]

OpenAIPayload(self, messages, kwargs) ==
    [model |-> self.model, messages |-> messages,
     max_tokens |-> GetDefault(kwargs, "max_tokens", DefaultMaxTokens),
     temperature |-> GetDefault(kwargs, "temperature", DefaultTemperatureTenths),
     stream |-> FALSE]

CustomPayload(self, messages, kwargs) ==
    [model |-> self.model, messages |-> messages,
     max_tokens |-> GetDefault(kwargs, "max_tokens", DefaultMaxTokens),
     temperature |-> GetDefault(kwargs, "temperature", DefaultTemperatureTenths)]

\* data["choices"][0], choice["message"]["content"]: indexing an empty list
\* raises IndexError, a missing key KeyError; only KeyError has a handler.
ChatCompletionParse(self, data, tag) ==
    IF "choices" \notin DOMAIN data THEN Raise("KeyError", "KeyError")
    ELSE IF Len(data["choices"]) = 0 THEN Raise("IndexError", "")
    ELSE LET choice == data["choices"][1] IN
         IF "message" \notin DOMAIN choice THEN Raise("KeyError", "KeyError")
         ELSE IF "content" \notin DOMAIN choice["message"] THEN Raise("KeyError", "KeyError")
         ELSE Return(LLMResponse(choice["message"]["content"], self.model,
                                 Get(data, "usage"), Get(choice, "finish_reason"), tag))

OpenAIGenerateResponse(self, messages, kwargs, outcome) ==
    LET t == Transport(outcome) IN
    IF t.kind = "raise" THEN t ELSE ChatCompletionParse(self, t.value[1], "openai")

\* CustomProvider.generate_response tagging its response provider="openai"
CustomGenerateResponse_OpenAITag(self, messages, kwargs, outcome) ==
    LET t == Transport(outcome) IN
    IF t.kind = "raise" THEN t ELSE ChatCompletionParse(self, t.value[1], "openai")

CustomGenerateResponse(self, messages, kwargs, outcome) ==
    LET t == Transport(outcome) IN
    IF t.kind = "raise" THEN t ELSE ChatCompletionParse(self, t.value[1], "custom")


\* The loop of lines 163-169: the last system message wins, user and
\* assistant contents are collected in order, any other role is dropped.
RECURSIVE SystemMessage(_, _)
SystemMessage(messages, acc) ==
    IF messages = <<>> THEN acc
    ELSE SystemMessage(Tail(messages),
                       IF Head(messages).role = "system" THEN Head(messages).content ELSE acc)

\* the loop without its `elif msg["role"] == "assistant"` branch
RECURSIVE UserMessages_UserOnly(_)
UserMessages_UserOnly(messages) ==
    IF messages = <<>> THEN <<>>
    ELSE IF Head(messages).role = "user"
         THEN <<Head(messages).content>> \o UserMessages_UserOnly(Tail(messages))
         ELSE UserMessages_UserOnly(Tail(messages))

RECURSIVE UserMessages(_)
UserMessages(messages) ==
    IF messages = <<>> THEN <<>>
    ELSE IF Head(messages).role \in {"user", "assistant"}
         THEN <<Head(messages).content>> \o UserMessages(Tail(messages))
         ELSE UserMessages(Tail(messages))

\* sep.join(parts)
RECURSIVE Join(_, _)
Join(sep, parts) ==
    IF parts = <<>> THEN ""
    ELSE IF Len(parts) = 1 THEN parts[1]
    ELSE parts[1] \o sep \o Join(sep, Tail(parts))

AnthropicPayload(self, messages, kwargs) ==
    LET system_message == SystemMessage(messages, "")
        user_content == Join("\n\n", UserMessages(messages))
        payload == [model |-> self.model,
                    max_tokens |-> GetDefault(kwargs, "max_tokens", DefaultMaxTokens),
                    temperature |-> GetDefault(kwargs, "temperature", DefaultTemperatureTenths),
                    messages |-> <<[role |-> "user", content |-> user_content]>>]
    IN  IF system_message # ""
        THEN [k \in DOMAIN payload \cup {"system"} |->
                 IF k = "system" THEN system_message ELSE payload[k]]
        ELSE payload

\* AnthropicParse reading finish_reason where the chat-completion format has it
AnthropicParse_FinishReasonKey(self, data) ==
    IF "content" \notin DOMAIN data THEN Raise("KeyError", "KeyError")
    ELSE IF Len(data["content"]) = 0 THEN Raise("IndexError", "")
    ELSE IF "text" \notin DOMAIN data["content"][1] THEN Raise("KeyError", "KeyError")
    ELSE Return(LLMResponse(data["content"][1]["text"], self.model,
                            Get(data, "usage"), Get(data, "finish_reason"), "anthropic"))

\* data["content"][0]["text"]
AnthropicParse(self, data) ==
    IF "content" \notin DOMAIN data THEN Raise("KeyError", "KeyError")
    ELSE IF Len(data["content"]) = 0 THEN Raise("IndexError", "")
    ELSE IF "text" \notin DOMAIN data["content"][1] THEN Raise("KeyError", "KeyError")
    ELSE Return(LLMResponse(data["content"][1]["text"], self.model,
                            Get(data, "usage"), Get(data, "stop_reason"), "anthropic"))

AnthropicGenerateResponse(self, messages, kwargs, outcome) ==
    LET t == Transport(outcome) IN
    IF t.kind = "raise" THEN t ELSE AnthropicParse(self, t.value[1])

----------------------------------------------------------------------------
(* LLMClient: construction and dispatch to the held provider.              *)

ProviderInstance(variant, cfg, base_url) ==
    [variant |-> variant, api_key |-> cfg.api_key, model |-> cfg.model,
     base_url |-> base_url,
     kwargs |-> [max_tokens |-> cfg.max_tokens, temperature |-> cfg.temperature]]

\* str.rstrip('/') on the base URLs of the model
RStripSlash(url) == IF url = "http://h/" THEN "http://h" ELSE url

\* raise ValueError(message)
ValueError(message) ==
    [kind |-> "raise", exc |-> "ValueError", handler |-> "", value |-> <<>>,
     message |-> message]

\* _create_provider with the final else falling back to the OpenAI provider
CreateProvider_DefaultOpenAI(cfg) ==
    IF cfg.provider = "anthropic"
    THEN Return(ProviderInstance("anthropic", cfg, "https://api.anthropic.com/v1"))
    ELSE IF cfg.provider = "custom"
    THEN IF cfg.base_url = None \/ cfg.base_url = Some("")
         THEN ValueError("base_url is required for custom provider")
         ELSE Return(ProviderInstance("custom", cfg, RStripSlash(cfg.base_url[1])))
    ELSE Return(ProviderInstance("openai", cfg,
                    IF cfg.base_url = None \/ cfg.base_url = Some("")
                    THEN "https://api.openai.com/v1" ELSE cfg.base_url[1]))

\* _create_provider without the check of lines 299-300
CreateProvider_NoBaseUrlCheck(cfg) ==
    IF cfg.provider = "openai"
    THEN Return(ProviderInstance("openai", cfg,
                    IF cfg.base_url = None \/ cfg.base_url = Some("")
                    THEN "https://api.openai.com/v1" ELSE cfg.base_url[1]))
    ELSE IF cfg.provider = "anthropic"
    THEN Return(ProviderInstance("anthropic", cfg, "https://api.anthropic.com/v1"))
    ELSE IF cfg.provider = "custom"
    THEN Return(ProviderInstance("custom", cfg,
                    IF cfg.base_url = None THEN "" ELSE RStripSlash(cfg.base_url[1])))
    ELSE ValueError("Unsupported provider: " \o cfg.provider)

\* LLMClient._create_provider; base_url is Optional, and None and "" are falsy
CreateProvider(cfg) ==
    IF cfg.provider = "openai"
    THEN Return(ProviderInstance("openai", cfg,
                    IF cfg.base_url = None \/ cfg.base_url = Some("")
                    THEN "https://api.openai.com/v1" ELSE cfg.base_url[1]))
    ELSE IF cfg.provider = "anthropic"
    THEN Return(ProviderInstance("anthropic", cfg, "https://api.anthropic.com/v1"))
    ELSE IF cfg.provider = "custom"
    THEN IF cfg.base_url = None \/ cfg.base_url = Some("")
         THEN ValueError("base_url is required for custom provider")
         ELSE Return(ProviderInstance("custom", cfg, RStripSlash(cfg.base_url[1])))
    ELSE ValueError("Unsupported provider: " \o cfg.provider)

\* the payload the held provider posts for generate_response
Payload(self, messages, kwargs) ==
    IF self.variant = "openai" THEN OpenAIPayload(self, messages, kwargs)
    ELSE IF self.variant = "anthropic" THEN AnthropicPayload(self, messages, kwargs)
    ELSE CustomPayload(self, messages, kwargs)

\* LLMClient.generate_response: self.provider.generate_response(messages, **kwargs)
GenerateResponse(self, messages, kwargs, outcome) ==
    IF self.variant = "openai" THEN OpenAIGenerateResponse(self, messages, kwargs, outcome)
    ELSE IF self.variant = "anthropic" THEN AnthropicGenerateResponse(self, messages, kwargs, outcome)
    ELSE CustomGenerateResponse(self, messages, kwargs, outcome)

SystemPrompt == "You are a helpful AI assistant that analyzes and responds to text content provided by the user."

\* the conversation with `if user_prompt is not None` in place of `if user_prompt`
BuildMessages_AppendEmptyPrompt(file_content, user_prompt) ==
    <<[role |-> "system", content |-> SystemPrompt],
      [role |-> "user", content |-> "Please analyze the following text content:\n\n" \o file_content]>>
    \o (IF user_prompt = None THEN <<>>
        ELSE <<[role |-> "user", content |-> user_prompt[1]]>>)

\* the conversation built by process_file_content and by stream_file_processing;
\* user_prompt is Optional, and None and "" are falsy
BuildMessages(file_content, user_prompt) ==
    <<[role |-> "system", content |-> SystemPrompt],
      [role |-> "user", content |-> "Please analyze the following text content:\n\n" \o file_content]>>
    \o (IF user_prompt = None \/ user_prompt = Some("") THEN <<>>
        ELSE <<[role |-> "user", content |-> user_prompt[1]]>>)

----------------------------------------------------------------------------
(* FileReader.  A file is absent, or has a size and a condition: readable  *)
(* in the configured encoding ("utf8"), readable only by the encoding      *)
(* fallback ("latin1"), not openable ("noperm"), or undecodable and gone   *)
(* by the time the fallback opens it ("vanish").                           *)

Paths == 1..MaxFiles

Absent == [cond |-> "absent", size |-> 0]

File(cond, size) == [cond |-> cond, size |-> size]

FileStates ==
    {Absent} \cup {File("utf8", n) : n \in {0, MaxFileSize, MaxFileSize + 1}}
             \cup {File(c, MaxFileSize) : c \in {"latin1", "noperm", "vanish"}}

\* the text of a file of n bytes: empty, or some text
Text(n) == IF n = 0 THEN "" ELSE "text"

FileContent(file_path, content, file_size, encoding) ==
    [file_path |-> file_path, content |-> content, file_size |-> file_size,
     encoding |-> encoding]

\* FileReader.read_file: Optional FileContent, or the exception that escapes
\* the UnicodeDecodeError handler when the fallback open fails
ReadFile(d, path) ==
    LET f == d[path] IN
    IF f.cond = "absent" THEN Return(None)
    ELSE IF f.size > MaxFileSize THEN Return(None)
    ELSE IF f.cond = "noperm" THEN Return(None)
    ELSE IF f.cond = "utf8"
    THEN Return(Some(FileContent(path, Text(f.size), f.size, "utf-8")))
    ELSE IF f.cond = "latin1"
    THEN Return(Some(FileContent(path, Text(f.size), f.size, "latin-1")))
    ELSE Raise("FileNotFoundError", "")

\* scan_directory without the size check of lines 86-87
RECURSIVE ScanFrom_NoSizeCheck(_, _)
ScanFrom_NoSizeCheck(d, p) ==
    IF p > MaxFiles THEN <<>>
    ELSE (IF d[p].cond # "absent" THEN <<p>> ELSE <<>>) \o ScanFrom_NoSizeCheck(d, p + 1)

\* FileReader.scan_directory, in path order
RECURSIVE ScanFrom(_, _)
ScanFrom(d, p) ==
    IF p > MaxFiles THEN <<>>
    ELSE (IF d[p].cond # "absent" /\ d[p].size <= MaxFileSize THEN <<p>> ELSE <<>>)
         \o ScanFrom(d, p + 1)

ScanDirectory(d) == ScanFrom(d, 1)

----------------------------------------------------------------------------
(* AIAgent.                                                                *)

ProcessingResult(file_path, file_content, llm_response, processing_time, success, error_message) ==
    [file_path |-> file_path, file_content |-> file_content,
     llm_response |-> llm_response, processing_time |-> processing_time,
     success |-> success, error_message |-> error_message]

\* an f-string message: its fixed text, and the path and exception it embeds
Message(text, path, detail) == [text |-> text, path |-> path, detail |-> detail]

\* lines 95-102
ReadFailedResult(file_path, t) ==
    ProcessingResult(file_path, FileContent(file_path, "", 0, "utf-8"), None, t, FALSE,
                     Some(Message("Failed to read file", None, "")))

\* the handler of lines 121-133 without its error_msg
ExceptionResult_NoMessage(file_path, t, exc) ==
    ProcessingResult(file_path, FileContent(file_path, "", 0, "utf-8"), None, t, FALSE, None)

\* lines 121-133
ExceptionResult(file_path, t, exc) ==
    ProcessingResult(file_path, FileContent(file_path, "", 0, "utf-8"), None, t, FALSE,
                     Some(Message("Error processing ", Some(file_path), exc)))

\* lines 113-119
SuccessResult(file_path, file_content, llm_response, t) ==
    ProcessingResult(file_path, file_content, Some(llm_response), t, TRUE, None)

RECURSIVE SumTimes(_)
SumTimes(rs) == IF rs = <<>> THEN 0 ELSE Head(rs).processing_time + SumTimes(Tail(rs))

\* the generator of lines 229-233 reading prompt_tokens
TokensOf_PromptTokens(r) ==
    IF r.llm_response # None /\ r.llm_response[1].usage # None
       /\ DOMAIN r.llm_response[1].usage[1] # {}
    THEN GetDefault(r.llm_response[1].usage[1], "prompt_tokens", 0)
    ELSE 0

\* lines 229-233: usage must be present and a non-empty dict
TokensOf(r) ==
    IF r.llm_response # None /\ r.llm_response[1].usage # None
       /\ DOMAIN r.llm_response[1].usage[1] # {}
    THEN GetDefault(r.llm_response[1].usage[1], "total_tokens", 0)
    ELSE 0

RECURSIVE SumTokens(_)
SumTokens(rs) == IF rs = <<>> THEN 0 ELSE TokensOf(Head(rs)) + SumTokens(Tail(rs))

IsSuccess(r) == r.success

IsFailure(r) == ~r.success

\* the filter `if r.error_message` of line 243
HasErrorMessage(r) == r.error_message # None /\ r.error_message[1].text # ""

\* ProcessingResult.to_dict: self.llm_response.to_dict() on None raises
ToDict(r) ==
    IF r.llm_response = None THEN Raise("AttributeError", "")
    ELSE Return([file_path |-> r.file_path, file_size |-> r.file_content.file_size,
                 encoding |-> r.file_content.encoding,
                 llm_response |-> r.llm_response[1],
                 processing_time |-> r.processing_time, success |-> r.success,
                 error_message |-> r.error_message])

\* the summary with line 240 dividing without its `if results else 0`
BatchSummary_UnguardedAverage(rs) ==
    LET successful_results == SelectSeq(rs, IsSuccess)
        failed_results == SelectSeq(rs, IsFailure)
        total_processing_time == SumTimes(rs)
    IN  IF Len(rs) = 0
        THEN Raise("ZeroDivisionError", "")
        ELSE IF \E i \in 1..Len(rs) : ToDict(rs[i]).kind = "raise"
        THEN Raise("AttributeError", "")
        ELSE Return([total_files |-> Len(rs),
                     successful |-> Len(successful_results),
                     failed |-> Len(failed_results),
                     total_processing_time |-> total_processing_time,
                     average_processing_time |-> total_processing_time \div Len(rs),
                     total_tokens |-> SumTokens(successful_results),
                     results |-> [i \in 1..Len(rs) |-> ToDict(rs[i]).value[1]],
                     errors |-> LET with_message == SelectSeq(failed_results, HasErrorMessage)
                                IN  [i \in 1..Len(with_message) |->
                                        with_message[i].error_message[1]]])

\* lines 225-244, given the list of results (times are whole units here, so
\* the average is the integer quotient)
BatchSummary(rs) ==
    LET successful_results == SelectSeq(rs, IsSuccess)
        failed_results == SelectSeq(rs, IsFailure)
        total_processing_time == SumTimes(rs)
    IN  IF \E i \in 1..Len(rs) : ToDict(rs[i]).kind = "raise"
        THEN Raise("AttributeError", "")
        ELSE Return([total_files |-> Len(rs),
                     successful |-> Len(successful_results),
                     failed |-> Len(failed_results),
                     total_processing_time |-> total_processing_time,
                     average_processing_time |->
                         IF Len(rs) > 0 THEN total_processing_time \div Len(rs) ELSE 0,
                     total_tokens |-> SumTokens(successful_results),
                     results |-> [i \in 1..Len(rs) |-> ToDict(rs[i]).value[1]],
                     errors |-> LET with_message == SelectSeq(failed_results, HasErrorMessage)
                                IN  [i \in 1..Len(with_message) |->
                                        with_message[i].error_message[1]]])

----------------------------------------------------------------------------
(* What the remote end can answer to one POST.                             *)

GoodContents == {"R"}

UsageDicts == {[total_tokens |-> 5, prompt_tokens |-> 3], [prompt_tokens |-> 3]}

ChatCompletionBodies(contents) ==
    {[choices |-> <<[message |-> [content |-> c], finish_reason |-> "stop"]>>, usage |-> u] :
        c \in contents, u \in UsageDicts}
    \cup {[choices |-> <<[message |-> [content |-> c]]>>] : c \in contents}
    \cup {[error |-> "overloaded"],
          [choices |-> <<>>],
          [choices |-> <<[finish_reason |-> "stop"]>>],
          [choices |-> <<[message |-> [role |-> "assistant"], finish_reason |-> "stop"]>>]}

AnthropicBodies(contents) ==
    {[content |-> <<[text |-> c]>>, stop_reason |-> "end_turn",
      usage |-> [input_tokens |-> 3, output_tokens |-> 2]] : c \in contents}
    \cup {[content |-> <<[text |-> c]>>] : c \in contents}
    \cup {[error |-> "overloaded"],
          [content |-> <<>>],
          [content |-> <<[type |-> "text"]>>, stop_reason |-> "end_turn"]}

Bodies(variant, contents) ==
    IF variant = "anthropic" THEN AnthropicBodies(contents) ELSE ChatCompletionBodies(contents)

OutcomesWith(variant, contents) ==
    {NetworkFailure("ConnectionError"), NetworkFailure("Timeout"),
     Response(500, None), Response(200, None)}
    \cup {Response(404, Some(b)) : b \in {[error |-> "overloaded"]}}
    \cup {Response(200, Some(b)) : b \in Bodies(variant, contents)}

HttpOutcomes(variant) == OutcomesWith(variant, GoodContents)

----------------------------------------------------------------------------
(* The agent's operations as steps.  One process_single_file call is the   *)
(* read (PsfRead), which on success builds the conversation and issues the *)
(* POST, and the arrival of the answer (PsfReceive).                       *)

\* time.time() differences, in ticks: a call that ends at the read takes
\* ReadTime, one that goes on to the LLM takes ReadTime + CallTime
Elapsed(with_call) == IF with_call THEN ReadTime + CallTime ELSE ReadTime

Prompts == {None, Some("P")}

AgentConfig(p) ==
    [provider |-> p, api_key |-> Some("k"), model |-> "m",
     base_url |-> IF p = "custom" THEN Some("http://h/") ELSE None,
     max_tokens |-> 1000, temperature |-> 7]

AgentConfigs == {AgentConfig(p) : p \in {"openai", "anthropic", "custom"}}

streamVars == <<received, words, out, calls, provEnd>>

Init ==
    /\ config \in AgentConfigs
    /\ provider = CreateProvider(config).value
    /\ disk \in [Paths -> FileStates]
    /\ pc = "idle"
    /\ mode = "none"
    /\ files = <<>>
    /\ idx = 1
    /\ cur = None
    /\ inflight = 0
    /\ posts = 0
    /\ sent = None
    /\ results = <<>>
    /\ ret = None
    /\ request = None
    /\ received = <<>>
    /\ words = <<>>
    /\ out = <<>>
    /\ calls = 0
    /\ provEnd = None

\* batch_process_with_summary(user_prompt) up to the first file:
\* process_all_files, whose read_all_files scans the directory
StartBatch ==
    /\ pc = "idle"
    /\ \E user_prompt \in Prompts : request' = user_prompt
    /\ mode' = "batch"
    /\ files' = ScanDirectory(disk)
    /\ idx' = 1
    /\ pc' = "read_all"
    /\ UNCHANGED <<provider, disk, cur, inflight, posts, sent, results, ret, config>>
    /\ UNCHANGED streamVars

\* process_files_with_prompt(files, prompt) up to the first file; the caller
\* names each path once, in any order, whatever is on the disk
StartList ==
    /\ pc = "idle"
    /\ \E n \in 0..MaxFiles : \E fs \in [1..n -> Paths] :
          /\ \A i, j \in 1..n : fs[i] = fs[j] => i = j
          /\ files' = fs
    /\ request' = Some("P")
    /\ mode' = "list"
    /\ idx' = 1
    /\ pc' = "list"
    /\ UNCHANGED <<provider, disk, cur, inflight, posts, sent, results, ret, config>>
    /\ UNCHANGED streamVars

\* one turn of the loop of read_all_files (file_reader.py 160-163) as driven by
\* process_all_files: a file that cannot be read is skipped, an exception
\* escaping read_file ends the whole batch
ReadAllFilesNext ==
    /\ pc = "read_all"
    /\ IF idx > Len(files)
       THEN /\ pc' = "summarise"
            /\ UNCHANGED <<idx, ret>>
       ELSE LET r == ReadFile(disk, files[idx]) IN
            IF r.kind = "raise"
            THEN /\ ret' = Some(r)
                 /\ pc' = "done"
                 /\ UNCHANGED idx
            ELSE IF r.value[1] = None
            THEN /\ idx' = idx + 1
                 /\ UNCHANGED <<pc, ret>>
            ELSE /\ pc' = "psf"
                 /\ UNCHANGED <<idx, ret>>
    /\ UNCHANGED <<provider, mode, disk, files, cur, inflight, posts, sent, results,
                   config, request>>
    /\ UNCHANGED streamVars

\* the loop of process_files_with_prompt leaving at the first failed result
ListNext_StopAtFailure ==
    /\ pc = "list"
    /\ IF idx > Len(files) \/ (results # <<>> /\ ~results[Len(results)].success)
       THEN /\ ret' = Some(Return(results))
            /\ pc' = "done"
       ELSE /\ pc' = "psf"
            /\ UNCHANGED ret
    /\ UNCHANGED <<provider, mode, disk, files, idx, cur, inflight, posts, sent, results,
                   config, request>>
    /\ UNCHANGED streamVars

\* the loop head of process_files_with_prompt
ListNext ==
    /\ pc = "list"
    /\ IF idx > Len(files)
       THEN /\ ret' = Some(Return(results))
            /\ pc' = "done"
       ELSE /\ pc' = "psf"
            /\ UNCHANGED ret
    /\ UNCHANGED <<provider, mode, disk, files, idx, cur, inflight, posts, sent, results,
                   config, request>>
    /\ UNCHANGED streamVars

NextFilePc == IF mode = "batch" THEN "read_all" ELSE "list"

\* process_single_file, lines 86-108: the read, and on success the POST of
\* process_file_content
PsfRead ==
    /\ pc = "psf"
    /\ LET file_path == files[idx]
           r == ReadFile(disk, file_path)
       IN  IF r.kind = "raise"
           THEN /\ results' = Append(results,
                                      ExceptionResult(file_path, Elapsed(FALSE), r.exc))
                /\ idx' = idx + 1
                /\ pc' = NextFilePc
                /\ UNCHANGED <<cur, inflight, posts, sent, calls>>
           ELSE IF r.value[1] = None
           THEN /\ results' = Append(results, ReadFailedResult(file_path, Elapsed(FALSE)))
                /\ idx' = idx + 1
                /\ pc' = NextFilePc
                /\ UNCHANGED <<cur, inflight, posts, sent, calls>>
           ELSE /\ cur' = r.value[1]
                /\ calls' = calls + 1
                /\ sent' = Some(Payload(provider[1],
                                        BuildMessages(r.value[1][1].content, request), <<>>))
                /\ posts' = posts + 1
                /\ inflight' = inflight + 1
                /\ pc' = "llm"
                /\ UNCHANGED <<idx, results>>
    /\ UNCHANGED <<provider, mode, disk, files, ret, config, request>>
    /\ UNCHANGED <<received, words, out, provEnd>>

\* PsfReceive with a client that posts again when the call has failed
PsfReceive_RetryOnFailure ==
    /\ pc = "llm"
    /\ \E outcome \in HttpOutcomes(provider[1].variant) :
          LET file_path == files[idx]
              t == Elapsed(TRUE)
              r == GenerateResponse(provider[1],
                                    BuildMessages(cur[1].content, request), <<>>, outcome)
          IN  /\ received' = <<outcome>>
              /\ IF r.kind = "raise" /\ posts < MaxFiles + 1
                 THEN /\ posts' = posts + 1
                      /\ UNCHANGED <<results, idx, pc, cur, inflight>>
                 ELSE /\ results' = Append(results,
                                           IF r.kind = "raise"
                                           THEN ExceptionResult(file_path, t, r.exc)
                                           ELSE SuccessResult(file_path, cur[1], r.value[1], t))
                      /\ inflight' = inflight - 1
                      /\ cur' = None
                      /\ idx' = idx + 1
                      /\ pc' = NextFilePc
                      /\ UNCHANGED posts
    /\ UNCHANGED <<provider, mode, disk, files, sent, ret, config, request>>
    /\ UNCHANGED <<words, out, calls, provEnd>>

\* PsfReceive with `except requests.exceptions.RequestException` in place of
\* `except Exception`: any other exception leaves process_single_file
PsfReceive_CatchRequestOnly ==
    /\ pc = "llm"
    /\ \E outcome \in HttpOutcomes(provider[1].variant) :
          LET file_path == files[idx]
              t == Elapsed(TRUE)
              r == GenerateResponse(provider[1],
                                    BuildMessages(cur[1].content, request), <<>>, outcome)
          IN  /\ received' = <<outcome>>
              /\ IF r.kind = "raise" /\ r.handler # "RequestException"
                 THEN /\ ret' = Some(r)
                      /\ pc' = "done"
                      /\ UNCHANGED <<results, idx>>
                 ELSE /\ results' = Append(results,
                                           IF r.kind = "raise"
                                           THEN ExceptionResult(file_path, t, r.exc)
                                           ELSE SuccessResult(file_path, cur[1], r.value[1], t))
                      /\ idx' = idx + 1
                      /\ pc' = NextFilePc
                      /\ UNCHANGED ret
    /\ inflight' = inflight - 1
    /\ cur' = None
    /\ UNCHANGED <<provider, mode, disk, files, posts, sent, config, request>>
    /\ UNCHANGED <<words, out, calls, provEnd>>

\* process_single_file, lines 105-133: the answer arrives, generate_response
\* returns or raises, and the result is wrapped
PsfReceive ==
    /\ pc = "llm"
    /\ \E outcome \in HttpOutcomes(provider[1].variant) :
          LET file_path == files[idx]
              t == Elapsed(TRUE)
              r == GenerateResponse(provider[1],
                                    BuildMessages(cur[1].content, request), <<>>, outcome)
          IN  /\ received' = <<outcome>>
              /\ results' = Append(results,
                                   IF r.kind = "raise"
                                   THEN ExceptionResult(file_path, t, r.exc)
                                   ELSE SuccessResult(file_path, cur[1], r.value[1], t))
    /\ inflight' = inflight - 1
    /\ cur' = None
    /\ idx' = idx + 1
    /\ pc' = NextFilePc
    /\ UNCHANGED <<provider, mode, disk, files, posts, sent, ret, config, request>>
    /\ UNCHANGED <<words, out, calls, provEnd>>

\* batch_process_with_summary, lines 225-244
Summarise ==
    /\ pc = "summarise"
    /\ ret' = Some(BatchSummary(results))
    /\ pc' = "done"
    /\ UNCHANGED <<provider, mode, disk, files, idx, cur, inflight, posts, sent, results,
                   config, request>>
    /\ UNCHANGED streamVars

Next ==
    \/ StartBatch
    \/ StartList
    \/ ReadAllFilesNext
    \/ ListNext
    \/ PsfRead
    \/ PsfReceive
    \/ Summarise

Spec == Init /\ [][Next]_vars

----------------------------------------------------------------------------
(* Claims about the agent (specification Spec).                            *)

BatchCompleted == mode = "batch" /\ pc = "done" /\ idx > Len(files)

FailedCount == Len(SelectSeq(results, IsFailure))

\* C1: a batch over N files of which K fail is not aborted: it returns a
\* summary with total_files = N, failed = K, successful = N - K and exactly K
\* entries in errors.
C1_BatchSummaryCounts ==
    BatchCompleted =>
        /\ ret # None
        /\ ret[1].kind = "return"
        /\ ret[1].value[1].total_files = Len(results)
        /\ ret[1].value[1].failed = FailedCount
        /\ ret[1].value[1].successful = Len(results) - FailedCount
        /\ Len(ret[1].value[1].errors) = FailedCount

\* C2: in every ProcessingResult produced by process_single_file, success is
\* true exactly when llm_response is present, and a result without a response
\* carries a non-empty error_message.
C2_SuccessIffResponse ==
    \A i \in 1..Len(results) :
        /\ results[i].success <=> results[i].llm_response # None
        /\ results[i].llm_response = None =>
              /\ results[i].error_message # None
              /\ results[i].error_message[1].text # ""

C2_Witness ==
    /\ \E i \in 1..Len(results) : results[i].success
    /\ \E i \in 1..Len(results) :
          ~results[i].success /\ results[i].error_message[1].detail = "KeyError"

InSingleFile == pc \in {"psf", "llm"}

\* C3: process_single_file lets no exception escape: whatever the read and the
\* LLM call do, the call ends by handing back one ProcessingResult and the
\* caller goes on; a failed read (None or raising) and a failed LLM call give
\* success = false with a message that says what failed.
C3_NoExceptionEscapes ==
    [][(InSingleFile /\ pc' # "llm") =>
          /\ Len(results') = Len(results) + 1
          /\ SubSeq(results', 1, Len(results)) = results
          /\ results'[Len(results')].file_path = files[idx]
          /\ ret' = ret
          /\ pc' = NextFilePc
          /\ (pc = "psf" \/ GenerateResponse(provider[1], <<>>, <<>>, received'[1]).kind = "raise")
                => /\ ~results'[Len(results')].success
                   /\ results'[Len(results')].error_message # None
                   /\ results'[Len(results')].error_message[1].text # ""
                   /\ (pc = "llm" =>
                          results'[Len(results')].error_message[1].detail
                            = GenerateResponse(provider[1], <<>>, <<>>, received'[1]).exc)
                   /\ (pc = "psf" /\ ReadFile(disk, files[idx]).kind = "raise" =>
                          results'[Len(results')].error_message[1].detail
                            = ReadFile(disk, files[idx]).exc)
          /\ (pc = "llm" /\ GenerateResponse(provider[1], <<>>, <<>>, received'[1]).kind = "return")
                => results'[Len(results')].success
      ]_vars

C3_Witness ==
    /\ \E i \in 1..Len(results) :
          results[i].error_message # None
          /\ results[i].error_message[1].detail = "FileNotFoundError"
    /\ \E i \in 1..Len(results) :
          results[i].error_message # None
          /\ results[i].error_message[1].detail = "ConnectionError"

----------------------------------------------------------------------------
(* One generate_response call on the held provider (specification SpecGen): *)
(* the payload is built and posted, then the transport's answer is turned   *)
(* into an LLMResponse or an exception.                                     *)

MessageValues ==
    {[role |-> "system", content |-> c] : c \in {"", "S"}}
    \cup {[role |-> r, content |-> c] : r \in {"user", "assistant"}, c \in {"A", "B"}}
    \cup {[role |-> "user", content |-> ""]}

MessageSeqs == UNION {[1..n -> MessageValues] : n \in 0..MaxMsgs}

\* the options of a call: none, or both given
KwargsValues == {<<>>, [max_tokens |-> 50, temperature |-> 2]}

agentVars == <<mode, disk, files, idx, cur, results>>

AgentIdle ==
    /\ mode = "none"
    /\ disk = [p \in Paths |-> Absent]
    /\ files = <<>>
    /\ idx = 1
    /\ cur = None
    /\ results = <<>>

InitGen ==
    /\ config \in AgentConfigs
    /\ provider = CreateProvider(config).value
    /\ request \in {Some([messages |-> ms, kwargs |-> kw]) : ms \in MessageSeqs, kw \in KwargsValues}
    /\ pc = "gen_idle"
    /\ AgentIdle
    /\ inflight = 0
    /\ posts = 0
    /\ sent = None
    /\ ret = None
    /\ received = <<>>
    /\ words = <<>>
    /\ out = <<>>
    /\ calls = 0
    /\ provEnd = None

\* generate_response up to requests.post: the payload goes out
GenPost ==
    /\ pc = "gen_idle"
    /\ sent' = Some(Payload(provider[1], request[1].messages, request[1].kwargs))
    /\ posts' = posts + 1
    /\ inflight' = inflight + 1
    /\ calls' = calls + 1
    /\ pc' = "gen_wait"
    /\ UNCHANGED <<provider, config, request, ret, received, words, out, provEnd>>
    /\ UNCHANGED agentVars

\* generate_response from the answer on: return or raise
GenReceive ==
    /\ pc = "gen_wait"
    /\ \E outcome \in HttpOutcomes(provider[1].variant) :
          /\ received' = <<outcome>>
          /\ ret' = Some(GenerateResponse(provider[1], request[1].messages,
                                          request[1].kwargs, outcome))
    /\ inflight' = inflight - 1
    /\ pc' = "gen_done"
    /\ UNCHANGED <<provider, config, request, sent, posts, words, out, calls, provEnd>>
    /\ UNCHANGED agentVars

NextGen ==
    \/ GenPost
    \/ GenReceive

SpecGen == InitGen /\ [][NextGen]_vars

----------------------------------------------------------------------------
(* Claims about generate_response (specification SpecGen).                 *)

Answered == pc = "gen_done"

GotJson == received[1].kind = "response" /\ ~RaisesForStatus(received[1].status)
           /\ received[1].body # None

\* the response lacks one of the keys the variant reads
MissingExpectedKey(variant, data) ==
    IF variant = "anthropic"
    THEN \/ "content" \notin DOMAIN data
         \/ Len(data["content"]) = 0
         \/ "text" \notin DOMAIN data["content"][1]
    ELSE \/ "choices" \notin DOMAIN data
         \/ Len(data["choices"]) = 0
         \/ "message" \notin DOMAIN data["choices"][1]
         \/ "content" \notin DOMAIN data["choices"][1]["message"]

\* C5: for every provider variant, a response that lacks an expected key
\* (choices, its first element, message, content; content, its first element,
\* text) makes generate_response fail with the malformed-response condition,
\* the one the KeyError handler stands for, and return no LLMResponse.
C5_MissingKeysAreMalformed ==
    (Answered /\ GotJson /\ MissingExpectedKey(provider[1].variant, received[1].body[1])) =>
        /\ ret[1].kind = "raise"
        /\ ret[1].handler = "KeyError"
        /\ ret[1].value = None

IsAnthropicCall == provider[1].variant = "anthropic" /\ sent # None

SystemIndexes(ms) == {i \in 1..Len(ms) : ms[i].role = "system"}

LastIndex(S) == CHOOSE i \in S : \A j \in S : j <= i

\* the user and assistant contents up to message i, in order, "\n\n" between
RECURSIVE TurnUpTo(_, _)
TurnUpTo(ms, i) ==
    IF i = 0 THEN <<>>
    ELSE IF ms[i].role \in {"user", "assistant"}
         THEN Append(TurnUpTo(ms, i - 1), ms[i].content)
         ELSE TurnUpTo(ms, i - 1)

RECURSIVE Glue(_, _)
Glue(parts, n) ==
    IF n = 0 THEN ""
    ELSE IF n = 1 THEN parts[1]
    ELSE Glue(parts, n - 1) \o "\n\n" \o parts[n]

SingleUserTurn(ms, payload) ==
    /\ Len(payload.messages) = 1
    /\ payload.messages[1].role = "user"
    /\ payload.messages[1].content = Glue(TurnUpTo(ms, Len(ms)), Len(TurnUpTo(ms, Len(ms))))

\* C7 as stated: whenever the sequence has a system message, the payload has
\* the top-level field system holding the content of a system message of the
\* sequence, and all user and assistant contents form one user turn.
C7_SystemAlwaysSent ==
    IsAnthropicCall =>
        /\ SystemIndexes(request[1].messages) # {} =>
              /\ "system" \in DOMAIN sent[1]
              /\ \E i \in SystemIndexes(request[1].messages) :
                    sent[1]["system"] = request[1].messages[i].content
        /\ SingleUserTurn(request[1].messages, sent[1])

\* C7, amended: the payload has the field system exactly when the last
\* system message of the sequence has a non-empty content, and then holds that
\* content (earlier system messages are dropped); all user and assistant
\* contents, in order and joined by "\n\n", form the one user turn.
C7_AnthropicPayload ==
    IsAnthropicCall =>
        LET ms == request[1].messages
            sys == SystemIndexes(ms)
        IN  /\ "system" \in DOMAIN sent[1] <=> (sys # {} /\ ms[LastIndex(sys)].content # "")
            /\ "system" \in DOMAIN sent[1] => sent[1]["system"] = ms[LastIndex(sys)].content
            /\ SingleUserTurn(ms, sent[1])

C7_Witness ==
    /\ IsAnthropicCall
    /\ request[1].messages = <<[role |-> "system", content |-> "S"],
                               [role |-> "user", content |-> "A"],
                               [role |-> "user", content |-> "B"]>>
    /\ sent[1]["system"] = "S"
    /\ sent[1].messages = <<[role |-> "user", content |-> "A\n\nB"]>>

----------------------------------------------------------------------------
(* Streaming (specification SpecStream): AIAgent.stream_file_processing on *)
(* one file, over the held provider's stream_response.  A fragment is a    *)
(* text written as the sequence of its pieces: a token of a split response *)
(* is its characters, and f"Error: {e}" is <<"Error: ", e>>.               *)

\* a server line as iter_lines hands it over, by what the loop reads of it
BlankLine == [kind |-> "blank"]

OtherLine == [kind |-> "other"]

DataLine(payload) == [kind |-> "data", payload |-> payload]

Done == [form |-> "done"]

Malformed == [form |-> "malformed"]

Json(v) == [form |-> "json", value |-> v]

JsonNull == [type |-> "null"]

JsonObject(members) == [type |-> "object", members |-> members]

DeltaContents == {"Hi", ""}

Deltas == {JsonObject([content |-> c]) : c \in DeltaContents}
          \cup {JsonObject([role |-> "assistant"]), JsonNull}

ChunkObjects ==
    {JsonObject([choices |-> <<[delta |-> d]>>]) : d \in Deltas}
    \cup {JsonObject([choices |-> <<[finish_reason |-> "stop"]>>]),
          JsonObject([choices |-> <<>>]),
          JsonObject([error |-> "overloaded"])}

LineValues ==
    {BlankLine, OtherLine, DataLine(Done), DataLine(Malformed), DataLine(Json(JsonNull))}
    \cup {DataLine(Json(v)) : v \in ChunkObjects}

Skip == [act |-> "skip"]

Break == [act |-> "break"]

Yield(text) == [act |-> "yield", fragment |-> <<text>>]

Fail(e) == [act |-> "raise", exc |-> e]

\* the body of the loop over response.iter_lines(), lines 123-136; `in` on a
\* JSON null raises TypeError
ProcessLine(line) ==
    IF line.kind = "blank" THEN Skip
    ELSE IF line.kind # "data" THEN Skip
    ELSE IF line.payload.form = "done" THEN Break
    ELSE IF line.payload.form = "malformed" THEN Skip
    ELSE LET json_data == line.payload.value IN
         IF json_data.type # "object" THEN Fail("TypeError")
         ELSE IF "choices" \in DOMAIN json_data.members
                 /\ Len(json_data.members["choices"]) > 0
         THEN LET choice == json_data.members["choices"][1]
                  delta == GetDefault(choice, "delta", JsonObject(<<>>))
              IN  IF delta.type # "object" THEN Fail("TypeError")
                  ELSE IF "content" \in DOMAIN delta.members
                  THEN Yield(delta.members["content"])
                  ELSE Skip
         ELSE Skip

OpenAIStreamPayload(self, messages, kwargs) ==
    [model |-> self.model, messages |-> messages,
     max_tokens |-> GetDefault(kwargs, "max_tokens", DefaultMaxTokens),
     temperature |-> GetDefault(kwargs, "temperature", DefaultTemperatureTenths),
     stream |-> TRUE]

Whitespace == {" ", "\n"}

Alphabet == {"a", "b"} \cup Whitespace

\* str.split(" "): every single space separates, empty tokens are kept
RECURSIVE SplitOnSpace(_, _, _)
SplitOnSpace(cs, tok, acc) ==
    IF cs = <<>> THEN Append(acc, tok)
    ELSE IF Head(cs) = " " THEN SplitOnSpace(Tail(cs), <<>>, Append(acc, tok))
    ELSE SplitOnSpace(Tail(cs), Append(tok, Head(cs)), acc)

Split_OnSpace(cs) == SplitOnSpace(cs, <<>>, <<>>)

\* str.split(): the maximal runs of non-whitespace characters, in order
RECURSIVE SplitFrom(_, _, _)
SplitFrom(cs, tok, acc) ==
    IF cs = <<>> THEN (IF tok = <<>> THEN acc ELSE Append(acc, tok))
    ELSE IF Head(cs) \in Whitespace
         THEN SplitFrom(Tail(cs), <<>>, IF tok = <<>> THEN acc ELSE Append(acc, tok))
         ELSE SplitFrom(Tail(cs), Append(tok, Head(cs)), acc)

Split(cs) == SplitFrom(cs, <<>>, <<>>)

HelloWorld == <<"H", "e", "l", "l", "o", " ", "w", "o", "r", "l", "d">>

\* the response texts of the simulated streams
StreamContents ==
    UNION {[1..n -> Alphabet] : n \in 0..MaxContentLen} \cup {HelloWorld}

ErrorFragment(text) == <<"Error: ", text>>

\* the handler of lines 210-211 re-raising instead
StreamCaught_Reraise(e) ==
    /\ out' = out
    /\ ret' = Some(Raise(e, ""))
    /\ pc' = "st_done"

\* the handler of lines 210-211: one error fragment, then the generator ends
StreamCaught(e) ==
    /\ out' = Append(out, ErrorFragment(e))
    /\ ret' = Some(Return(None))
    /\ pc' = "st_done"

\* the generator runs off its end
StreamFinished ==
    /\ out' = out
    /\ ret' = Some(Return(None))
    /\ pc' = "st_done"

InitStream ==
    /\ config \in AgentConfigs
    /\ provider = CreateProvider(config).value
    /\ disk \in {[p \in Paths |-> IF p = 1 THEN f ELSE Absent] : f \in FileStates}
    /\ files = <<1>>
    /\ request \in Prompts
    /\ pc = "st_idle"
    /\ mode = "stream"
    /\ idx = 1
    /\ cur = None
    /\ results = <<>>
    /\ inflight = 0
    /\ posts = 0
    /\ sent = None
    /\ ret = None
    /\ received = <<>>
    /\ words = <<>>
    /\ out = <<>>
    /\ calls = 0
    /\ provEnd = None

\* stream_file_processing, lines 189-207, up to the provider's POST: the
\* OpenAI variant posts with stream=True, the other two call generate_response
StreamStart ==
    /\ pc = "st_idle"
    /\ LET r == ReadFile(disk, files[idx]) IN
       IF r.kind = "raise"
       THEN /\ StreamCaught(r.exc)
            /\ UNCHANGED <<cur, sent, posts, inflight, calls>>
       ELSE IF r.value[1] = None
       THEN /\ out' = Append(out, ErrorFragment("Failed to read file"))
            /\ ret' = Some(Return(None))
            /\ pc' = "st_done"
            /\ UNCHANGED <<cur, sent, posts, inflight, calls>>
       ELSE LET messages == BuildMessages(r.value[1][1].content, request) IN
            /\ cur' = r.value[1]
            /\ posts' = posts + 1
            /\ inflight' = inflight + 1
            /\ UNCHANGED <<out, ret>>
            /\ IF provider[1].variant = "openai"
               THEN /\ sent' = Some(OpenAIStreamPayload(provider[1], messages, <<>>))
                    /\ pc' = "st_open"
                    /\ UNCHANGED calls
               ELSE /\ sent' = Some(Payload(provider[1], messages, <<>>))
                    /\ calls' = calls + 1
                    /\ pc' = "st_gen"
    /\ UNCHANGED <<provider, config, request, mode, disk, files, idx, results,
                   received, words, provEnd>>

\* OpenAIProvider.stream_response, lines 119-120: the POST is answered
StreamOpen ==
    /\ pc = "st_open"
    /\ \E outcome \in {NetworkFailure("ConnectionError"), Response(500, None),
                       Response(200, None)} :
          LET t == IF outcome.kind = "network" THEN Raise(outcome.exc, "RequestException")
                   ELSE IF RaisesForStatus(outcome.status)
                   THEN Raise("HTTPError", "RequestException")
                   ELSE Return(None)
          IN  IF t.kind = "raise"
              THEN /\ provEnd' = Some(t)
                   /\ inflight' = inflight - 1
                   /\ StreamCaught(t.exc)
              ELSE /\ pc' = "st_lines"
                   /\ UNCHANGED <<provEnd, inflight, out, ret>>
    /\ UNCHANGED <<provider, config, request, mode, disk, files, idx, cur, results,
                   posts, sent, received, words, calls>>

\* one line arrives and goes through the loop body
StreamLine ==
    /\ pc = "st_lines"
    /\ Len(received) < MaxLines
    /\ \E line \in LineValues :
          LET a == ProcessLine(line) IN
          /\ received' = Append(received, line)
          /\ IF a.act = "raise"
             THEN /\ provEnd' = Some(Raise(a.exc, ""))
                  /\ inflight' = inflight - 1
                  /\ StreamCaught(a.exc)
             ELSE IF a.act = "break"
             THEN /\ provEnd' = Some(Return(None))
                  /\ inflight' = inflight - 1
                  /\ StreamFinished
             ELSE IF a.act = "yield"
             THEN /\ out' = Append(out, a.fragment)
                  /\ UNCHANGED <<provEnd, inflight, ret, pc>>
             ELSE UNCHANGED <<provEnd, inflight, out, ret, pc>>
    /\ UNCHANGED <<provider, config, request, mode, disk, files, idx, cur, results,
                   posts, sent, words, calls>>

\* the server closes the stream: iter_lines is exhausted
StreamEnd ==
    /\ pc = "st_lines"
    /\ provEnd' = Some(Return(None))
    /\ inflight' = inflight - 1
    /\ StreamFinished
    /\ UNCHANGED <<provider, config, request, mode, disk, files, idx, cur, results,
                   posts, sent, received, words, calls>>

\* the connection breaks while iter_lines reads: a RequestException, re-raised
\* by lines 138-140
StreamBroken ==
    /\ pc = "st_lines"
    /\ provEnd' = Some(Raise("ChunkedEncodingError", "RequestException"))
    /\ inflight' = inflight - 1
    /\ StreamCaught("ChunkedEncodingError")
    /\ UNCHANGED <<provider, config, request, mode, disk, files, idx, cur, results,
                   posts, sent, received, words, calls>>

\* Anthropic and Custom stream_response, lines 210-211 and 264-265: the
\* blocking generate_response call ends, and its content is split
StreamGenerate ==
    /\ pc = "st_gen"
    /\ \E outcome \in OutcomesWith(provider[1].variant, StreamContents) :
          LET r == GenerateResponse(provider[1], BuildMessages(cur[1].content, request),
                                    <<>>, outcome)
          IN  /\ received' = <<outcome>>
              /\ inflight' = inflight - 1
              /\ IF r.kind = "raise"
                 THEN /\ provEnd' = Some(r)
                      /\ StreamCaught(r.exc)
                      /\ UNCHANGED words
                 ELSE /\ words' = Split(r.value[1].content)
                      /\ pc' = "st_words"
                      /\ UNCHANGED <<provEnd, out, ret>>
    /\ UNCHANGED <<provider, config, request, mode, disk, files, idx, cur, results,
                   posts, sent, calls>>

\* lines 212-213 and 266-267: the next word goes out with a space after it
StreamWord ==
    /\ pc = "st_words"
    /\ IF words = <<>>
       THEN /\ provEnd' = Some(Return(None))
            /\ StreamFinished
            /\ UNCHANGED words
       ELSE /\ out' = Append(out, Head(words) \o <<" ">>)
            /\ words' = Tail(words)
            /\ UNCHANGED <<provEnd, ret, pc>>
    /\ UNCHANGED <<provider, config, request, mode, disk, files, idx, cur, results,
                   posts, sent, received, inflight, calls>>

NextStream ==
    \/ StreamStart
    \/ StreamOpen
    \/ StreamLine
    \/ StreamEnd
    \/ StreamBroken
    \/ StreamGenerate
    \/ StreamWord

SpecStream == InitStream /\ [][NextStream]_vars

----------------------------------------------------------------------------
(* Claims about streaming (specification SpecStream).                      *)

IsErrorFragment(f) == Len(f) > 0 /\ f[1] = "Error: "

IsContentFragment(f) == ~IsErrorFragment(f)

\* what the provider's stream_response yielded
ContentFragments == SelectSeq(out, IsContentFragment)

ErrorCount == Len(SelectSeq(out, IsErrorFragment))

ProviderRaised == provEnd # None /\ provEnd[1].kind = "raise"

CarriesContent(line) ==
    /\ line.kind = "data"
    /\ line.payload.form = "json"
    /\ line.payload.value.type = "object"
    /\ "choices" \in DOMAIN line.payload.value.members
    /\ Len(line.payload.value.members["choices"]) > 0
    /\ "delta" \in DOMAIN line.payload.value.members["choices"][1]
    /\ line.payload.value.members["choices"][1]["delta"].type = "object"
    /\ "content" \in DOMAIN line.payload.value.members["choices"][1]["delta"].members

IsTerminator(line) == line.kind = "data" /\ line.payload.form = "done"

\* the lines before the first terminator
BeforeDone(ls) ==
    LET dones == {i \in 1..Len(ls) : IsTerminator(ls[i])}
    IN  IF dones = {} THEN ls
        ELSE SubSeq(ls, 1, (CHOOSE i \in dones : \A j \in dones : i <= j) - 1)

DeltaContentOf(line) == <<line.payload.value.members["choices"][1]["delta"].members["content"]>>

ExpectedDeltas(ls) ==
    LET carrying == SelectSeq(BeforeDone(ls), CarriesContent)
    IN  [i \in 1..Len(carrying) |-> DeltaContentOf(carrying[i])]

OpenAIStreaming == provider[1].variant = "openai" /\ pc \in {"st_lines", "st_done"}
                   /\ cur # None

\* C8: for every sequence of server lines the OpenAI-style stream yields
\* exactly, in order, the choices[0].delta.content of the data lines before
\* the first [DONE] that carry the field; no line makes the stream fail (only
\* the transport can), and nothing is yielded from the terminator on.
C8_OpenAIStreamFragments ==
    OpenAIStreaming =>
        /\ ContentFragments = ExpectedDeltas(received)
        /\ ProviderRaised => provEnd[1].handler = "RequestException"
        /\ (received # <<>> /\ IsTerminator(received[Len(received)])) =>
              pc = "st_done" /\ provEnd = Some(Return(None))

SimulatedStreaming == provider[1].variant \in {"anthropic", "custom"}

ResponseText ==
    IF provider[1].variant = "anthropic"
    THEN received[1].body[1]["content"][1]["text"]
    ELSE received[1].body[1]["choices"][1]["message"]["content"]

TokenStarts(cs) ==
    {i \in 1..Len(cs) : cs[i] \notin Whitespace /\ (i = 1 \/ cs[i - 1] \in Whitespace)}

TokenEnd(cs, i) ==
    CHOOSE j \in i..Len(cs) :
        /\ \A k \in i..j : cs[k] \notin Whitespace
        /\ j = Len(cs) \/ cs[j + 1] \in Whitespace

NthStart(cs, n) ==
    CHOOSE i \in TokenStarts(cs) : Cardinality({j \in TokenStarts(cs) : j < i}) = n - 1

\* one fragment per whitespace-delimited token, each with one trailing space
ExpectedWords(cs) ==
    [n \in 1..Cardinality(TokenStarts(cs)) |->
        SubSeq(cs, NthStart(cs, n), TokenEnd(cs, NthStart(cs, n))) \o <<" ">>]

Spaced(ws) == [n \in 1..Len(ws) |-> ws[n] \o <<" ">>]

\* C9: the Anthropic and Custom streams make one blocking generate_response
\* call before anything is yielded, then yield one fragment per
\* whitespace-delimited token of the content, in order, each with a single
\* trailing space (none for a content without tokens); when the call fails
\* nothing is yielded.
C9_SimulatedStream ==
    SimulatedStreaming =>
        /\ calls <= 1
        /\ ContentFragments # <<>> => calls = 1 /\ inflight = 0 /\ received # <<>>
        /\ pc = "st_words" => ContentFragments \o Spaced(words) = ExpectedWords(ResponseText)
        /\ (pc = "st_done" /\ provEnd = Some(Return(None))) =>
              ContentFragments = ExpectedWords(ResponseText)
        /\ ProviderRaised => ContentFragments = <<>>

C9_Witness ==
    /\ provider[1].variant = "anthropic"
    /\ pc = "st_done"
    /\ calls = 1
    /\ provEnd = Some(Return(None))
    /\ ResponseText = HelloWorld
    /\ out = << <<"H", "e", "l", "l", "o", " ">>, <<"w", "o", "r", "l", "d", " ">> >>

----------------------------------------------------------------------------
(* Construction (specification SpecClient): an LLMConfig is validated, an  *)
(* AIAgent is built from it, and the agent builds its LLMClient; or an     *)
(* LLMClient is built directly from a configuration object whose fields    *)
(* were assigned without validation.                                       *)

SupportedProviders == {"openai", "anthropic", "custom"}

\* LLMConfig.validate_provider
ValidateProvider(v) ==
    IF v \notin SupportedProviders THEN Raise("ValidationError", "") ELSE Return(v)

\* LLMConfig.validate_temperature, in tenths
ValidateTemperature(v) ==
    IF ~(0 <= v /\ v <= 20) THEN Raise("ValidationError", "") ELSE Return(v)

\* LLMConfig(...): the field validators run at construction
LLMConfigNew(cfg) ==
    IF ValidateProvider(cfg.provider).kind = "raise" THEN ValidateProvider(cfg.provider)
    ELSE IF ValidateTemperature(cfg.temperature).kind = "raise"
    THEN ValidateTemperature(cfg.temperature)
    ELSE Return(cfg)

\* validate_api_key accepting every key
ValidateApiKey_AcceptAll(cfg) == Return(TRUE)

\* Config.validate_api_key; api_key is Optional, and None and "" are falsy
ValidateApiKey(cfg) ==
    IF cfg.api_key = None \/ cfg.api_key = Some("")
    THEN ValueError("LLM API key is required. Set LLM_API_KEY environment variable.")
    ELSE Return(TRUE)

ProviderNames == SupportedProviders \cup {"foo", "OpenAI"}

ClientConfigs ==
    [provider : ProviderNames,
     api_key : {None, Some(""), Some("k")},
     model : {"m"},
     base_url : {None, Some(""), Some("http://h"), Some("http://h/")},
     max_tokens : {DefaultMaxTokens},
     temperature : {DefaultTemperatureTenths, 21}]

InitClient ==
    /\ config \in ClientConfigs
    /\ pc \in {"config_new", "client_new"}
    /\ provider = None
    /\ disk = [p \in Paths |-> Absent]
    /\ mode = "none"
    /\ files = <<>>
    /\ idx = 1
    /\ cur = None
    /\ inflight = 0
    /\ posts = 0
    /\ sent = None
    /\ results = <<>>
    /\ ret = None
    /\ request = None
    /\ received = <<>>
    /\ words = <<>>
    /\ out = <<>>
    /\ calls = 0
    /\ provEnd = None

\* LLMConfig(provider=..., ...) inside Config: validation passes or raises
ConfigNew ==
    /\ pc = "config_new"
    /\ IF LLMConfigNew(config).kind = "raise"
       THEN ret' = Some(LLMConfigNew(config)) /\ pc' = "failed"
       ELSE ret' = ret /\ pc' = "agent_new"
    /\ UNCHANGED <<provider, config, request, inflight, posts, sent>>
    /\ UNCHANGED agentVars
    /\ UNCHANGED streamVars

\* AIAgent.__init__, lines 60-70: validate_api_key, then the FileReader
AgentNew ==
    /\ pc = "agent_new"
    /\ IF ValidateApiKey(config).kind = "raise"
       THEN ret' = Some(ValidateApiKey(config)) /\ pc' = "failed"
       ELSE ret' = ret /\ pc' = "client_new"
    /\ UNCHANGED <<provider, config, request, inflight, posts, sent>>
    /\ UNCHANGED agentVars
    /\ UNCHANGED streamVars

\* LLMClient.__init__: self.provider = self._create_provider()
ClientNew ==
    /\ pc = "client_new"
    /\ IF CreateProvider(config).kind = "raise"
       THEN /\ ret' = Some(CreateProvider(config))
            /\ provider' = provider
            /\ pc' = "failed"
       ELSE /\ ret' = Some(Return(None))
            /\ provider' = CreateProvider(config).value
            /\ pc' = "ready"
    /\ UNCHANGED <<config, request, inflight, posts, sent>>
    /\ UNCHANGED agentVars
    /\ UNCHANGED streamVars

NextClient ==
    \/ ConfigNew
    \/ AgentNew
    \/ ClientNew

SpecClient == InitClient /\ [][NextClient]_vars

----------------------------------------------------------------------------
(* Claims about construction (specification SpecClient).                   *)

\* C10: constructing an LLMClient whose configured provider name is not one
\* of openai, anthropic, custom fails with the unsupported-provider error,
\* and no provider instance (so no client holding one) exists afterwards.
C10_UnsupportedProvider ==
    /\ provider # None => config.provider \in SupportedProviders
    /\ (pc \in {"ready", "failed"} /\ config.provider \notin SupportedProviders) =>
          /\ pc = "failed"
          /\ provider = None
          /\ ret # None /\ ret[1].kind = "raise"
          /\ ret[1].exc \in {"ValueError", "ValidationError"}
          /\ ret[1].exc = "ValueError" =>
                ret[1].message = "Unsupported provider: " \o config.provider

C10_Witness ==
    /\ pc = "failed"
    /\ config.provider = "foo"
    /\ config.api_key = Some("k")
    /\ ret = Some(ValueError("Unsupported provider: foo"))
    /\ provider = None

\* C11: constructing an LLMClient for the provider name custom fails with the
\* missing-base-URL error and holds no provider when base_url is absent or
\* empty; with a non-empty base_url it succeeds and holds a CustomProvider.
C11_CustomNeedsBaseUrl ==
    [][(pc = "client_new" /\ pc' # "client_new" /\ config.provider = "custom") =>
          IF config.base_url = None \/ config.base_url = Some("")
          THEN /\ pc' = "failed"
               /\ ret' = Some(ValueError("base_url is required for custom provider"))
               /\ provider' = None
          ELSE /\ pc' = "ready"
               /\ ret' = Some(Return(None))
               /\ provider' # None
               /\ provider'[1].variant = "custom"
               /\ provider'[1].base_url = "http://h"
      ]_vars

C11_Witness ==
    /\ config.provider = "custom"
    /\ config.api_key = Some("k")
    /\ config.base_url = Some("")
    /\ pc = "failed"
    /\ ret = Some(ValueError("base_url is required for custom provider"))
    /\ provider = None

----------------------------------------------------------------------------
(* Further claims about generate_response (specification SpecGen).         *)

WellFormed == GotJson /\ ~MissingExpectedKey(provider[1].variant, received[1].body[1])

\* C12: for every message sequence and every 2xx response that has the keys
\* the variant reads, generate_response returns an LLMResponse whose provider
\* field is the identifier of the variant that produced it, which through
\* LLMClient is the configured provider name.
C12_ProviderTag ==
    /\ (Answered /\ WellFormed) => ret[1].kind = "return"
    /\ (Answered /\ ret[1].kind = "return") =>
          /\ ret[1].value[1].provider = provider[1].variant
          /\ ret[1].value[1].provider = config.provider
          /\ ret[1].value[1].provider \in {"openai", "anthropic", "custom"}

C12_Witness ==
    /\ Answered
    /\ config.provider = "custom"
    /\ Len(request[1].messages) = MaxMsgs
    /\ ret[1].kind = "return"
    /\ ret[1].value[1].provider = "custom"

\* C13: the returned LLMResponse has as usage the response's `usage` value,
\* unchanged, when the key is there and None otherwise; its finish_reason is
\* choices[0].finish_reason for OpenAI and Custom and the top-level
\* stop_reason for Anthropic, None when the field is not there.
C13_UsageAndFinishReason ==
    (Answered /\ ret[1].kind = "return") =>
        /\ "usage" \in DOMAIN received[1].body[1] =>
              ret[1].value[1].usage = Some(received[1].body[1]["usage"])
        /\ "usage" \notin DOMAIN received[1].body[1] => ret[1].value[1].usage = None
        /\ provider[1].variant = "anthropic" =>
              /\ "stop_reason" \in DOMAIN received[1].body[1] =>
                    ret[1].value[1].finish_reason = Some(received[1].body[1]["stop_reason"])
              /\ "stop_reason" \notin DOMAIN received[1].body[1] =>
                    ret[1].value[1].finish_reason = None
        /\ provider[1].variant \in {"openai", "custom"} =>
              /\ "finish_reason" \in DOMAIN received[1].body[1]["choices"][1] =>
                    ret[1].value[1].finish_reason
                      = Some(received[1].body[1]["choices"][1]["finish_reason"])
              /\ "finish_reason" \notin DOMAIN received[1].body[1]["choices"][1] =>
                    ret[1].value[1].finish_reason = None

C13_Witness ==
    /\ Answered
    /\ provider[1].variant = "anthropic"
    /\ ret[1].kind = "return"
    /\ ret[1].value[1].usage = Some([input_tokens |-> 3, output_tokens |-> 2])
    /\ ret[1].value[1].finish_reason = Some("end_turn")

----------------------------------------------------------------------------
(* One process_file_content call on the client (specification SpecContent): *)
(* the conversation is built and handed to generate_response, whose POST    *)
(* goes out; then the answer arrives as in SpecGen.                         *)

FileTexts == {"", "text", "two\n\nparts"}

UserPrompts == {None, Some(""), Some("P")}

InitContent ==
    /\ config \in AgentConfigs
    /\ provider = CreateProvider(config).value
    /\ request \in {Some([file_content |-> c, user_prompt |-> p]) :
                      c \in FileTexts, p \in UserPrompts}
    /\ pc = "pfc_idle"
    /\ AgentIdle
    /\ inflight = 0
    /\ posts = 0
    /\ sent = None
    /\ ret = None
    /\ received = <<>>
    /\ words = <<>>
    /\ out = <<>>
    /\ calls = 0
    /\ provEnd = None

\* process_file_content, lines 330-340, up to the POST of generate_response
PfcCall ==
    /\ pc = "pfc_idle"
    /\ LET messages == BuildMessages(request[1].file_content, request[1].user_prompt) IN
          /\ request' = Some([messages |-> messages, kwargs |-> <<>>])
          /\ sent' = Some(Payload(provider[1], messages, <<>>))
    /\ calls' = calls + 1
    /\ posts' = posts + 1
    /\ inflight' = inflight + 1
    /\ pc' = "gen_wait"
    /\ UNCHANGED <<provider, config, ret, received, words, out, provEnd>>
    /\ UNCHANGED agentVars

NextContent ==
    \/ PfcCall
    \/ GenReceive

SpecContent == InitContent /\ [][NextContent]_vars

(* Claims about process_file_content (specification SpecContent).          *)

HasPrompt(p) == p # None /\ p # Some("")

\* C14: process_file_content hands to generate_response, exactly once, the
\* conversation made of the fixed system message, a user message that ends
\* with the whole file text, and, only for a non-empty user_prompt, one more
\* user message holding that prompt: 2 messages without a prompt, 3 with one.
C14_Conversation ==
    [][/\ pc = "pfc_idle" =>
             /\ calls' = calls + 1
             /\ request'[1].kwargs = <<>>
             /\ Len(request'[1].messages) = (IF HasPrompt(request[1].user_prompt) THEN 3 ELSE 2)
             /\ request'[1].messages[1] = [role |-> "system", content |-> SystemPrompt]
             /\ request'[1].messages[2].role = "user"
             /\ request'[1].messages[2].content
                  = "Please analyze the following text content:\n\n" \o request[1].file_content
             /\ HasPrompt(request[1].user_prompt) =>
                   request'[1].messages[3]
                     = [role |-> "user", content |-> request[1].user_prompt[1]]
       /\ pc # "pfc_idle" => calls' = calls /\ request' = request
      ]_vars

C14_Witness ==
    /\ pc = "gen_done"
    /\ calls = 1
    /\ "messages" \in DOMAIN request[1]
    /\ request[1].messages =
          <<[role |-> "system", content |-> SystemPrompt],
            [role |-> "user",
             content |-> "Please analyze the following text content:\n\ntwo\n\nparts"],
            [role |-> "user", content |-> "P"]>>

----------------------------------------------------------------------------
(* Further claims about the agent (specification Spec).                    *)

\* the total count a result stands for: that of a successful result whose
\* response has a usage with a total, zero for every other result
CountedTokens(r) ==
    IF r.success /\ r.llm_response # None /\ r.llm_response[1].usage # None
       /\ "total_tokens" \in DOMAIN r.llm_response[1].usage[1]
    THEN r.llm_response[1].usage[1]["total_tokens"]
    ELSE 0

RECURSIVE CountedUpTo(_, _)
CountedUpTo(rs, n) == IF n = 0 THEN 0 ELSE CountedUpTo(rs, n - 1) + CountedTokens(rs[n])

\* C15: total_tokens of the batch summary is the sum, over the successful
\* results, of the total count in each response's usage; a response without
\* usage or without a total in it counts zero, and so does every failed result.
\* The sum of lines 229-233 is this number also for a batch with failures.
C15_TotalTokens ==
    /\ (BatchCompleted /\ ret[1].kind = "return") =>
          ret[1].value[1].total_tokens = CountedUpTo(results, Len(results))
    /\ (mode = "batch" /\ pc \in {"summarise", "done"}) =>
          SumTokens(SelectSeq(results, IsSuccess)) = CountedUpTo(results, Len(results))

C15_Witness ==
    /\ BatchCompleted
    /\ ret[1].kind = "return"
    /\ Len(results) = 2
    /\ results[1].llm_response[1].usage = Some([total_tokens |-> 5, prompt_tokens |-> 3])
    /\ results[2].llm_response[1].usage = Some([prompt_tokens |-> 3])
    /\ ret[1].value[1].total_tokens = 5

----------------------------------------------------------------------------
(* The CLI command `process` without --stream (specification SpecCli): the *)
(* configuration is loaded from the environment, the agent is built, the   *)
(* batch runs as in Spec, and the command exits.  An exception anywhere is *)
(* caught by the command's handler, which ends in sys.exit(1) (or, with    *)
(* --verbose, re-raises, which ends the process with status 1 as well).    *)

CliDisks == [Paths -> {Absent, File("utf8", MaxFileSize), File("noperm", MaxFileSize)}]

InitCli ==
    /\ config \in ClientConfigs
    /\ disk \in CliDisks
    /\ pc = "cli_config"
    /\ provider = None
    /\ mode = "none"
    /\ files = <<>>
    /\ idx = 1
    /\ cur = None
    /\ inflight = 0
    /\ posts = 0
    /\ sent = None
    /\ results = <<>>
    /\ ret = None
    /\ request = None
    /\ received = <<>>
    /\ words = <<>>
    /\ out = <<>>
    /\ calls = 0
    /\ provEnd = None

\* cli.py lines 49-50: Config.from_env() builds the LLMConfig, whose
\* validators run; on an exception the handler of lines 97-101 exits with 1
CliConfig ==
    /\ pc = "cli_config"
    /\ IF LLMConfigNew(config).kind = "raise"
       THEN ret' = Some(LLMConfigNew(config)) /\ pc' = "exit_1"
       ELSE ret' = ret /\ pc' = "cli_agent"
    /\ UNCHANGED <<provider, config, request, inflight, posts, sent>>
    /\ UNCHANGED agentVars
    /\ UNCHANGED streamVars

\* cli.py line 53: AIAgent(config), that is validate_api_key, the FileReader
\* and the LLMClient with its provider (agent.py 60-73)
CliAgent ==
    /\ pc = "cli_agent"
    /\ IF ValidateApiKey(config).kind = "raise"
       THEN /\ ret' = Some(ValidateApiKey(config))
            /\ pc' = "exit_1"
            /\ UNCHANGED provider
       ELSE IF CreateProvider(config).kind = "raise"
       THEN /\ ret' = Some(CreateProvider(config))
            /\ pc' = "exit_1"
            /\ UNCHANGED provider
       ELSE /\ provider' = CreateProvider(config).value
            /\ pc' = "idle"
            /\ UNCHANGED ret
    /\ UNCHANGED <<config, request, inflight, posts, sent>>
    /\ UNCHANGED agentVars
    /\ UNCHANGED streamVars

\* cli.py lines 69-101: the batch has returned its summary, which is shown,
\* or raised, which the handler turns into exit status 1
CliExit ==
    /\ pc = "done"
    /\ pc' = (IF ret[1].kind = "raise" THEN "exit_1" ELSE "exit_0")
    /\ UNCHANGED <<provider, config, request, inflight, posts, sent, ret>>
    /\ UNCHANGED agentVars
    /\ UNCHANGED streamVars

NextCli ==
    \/ CliConfig
    \/ CliAgent
    \/ StartBatch
    \/ ReadAllFilesNext
    \/ PsfRead
    \/ PsfReceive
    \/ Summarise
    \/ CliExit

SpecCli == InitCli /\ [][NextCli]_vars

(* Claims about the CLI (specification SpecCli).                           *)

ConfigError(cfg) ==
    \/ cfg.api_key = None \/ cfg.api_key = Some("")
    \/ cfg.provider \notin {"openai", "anthropic", "custom"}
    \/ cfg.provider = "custom" /\ (cfg.base_url = None \/ cfg.base_url = Some(""))

NothingStarted ==
    /\ mode = "none"
    /\ files = <<>>
    /\ results = <<>>
    /\ cur = None
    /\ posts = 0
    /\ inflight = 0
    /\ sent = None

\* C16: with a missing API key, an unknown provider name or the custom
\* provider without base URL, the command never gets past the construction of
\* the agent: no agent with a provider exists, no file is scanned or read, no
\* HTTP request is issued, and the command ends with exit status 1.
C16_ConfigErrorsAtStartup ==
    ConfigError(config) =>
        /\ pc \in {"cli_config", "cli_agent", "exit_1"}
        /\ provider = None
        /\ NothingStarted
        /\ pc = "exit_1" => ret # None /\ ret[1].kind = "raise"

C16_Witness ==
    /\ pc = "exit_1"
    /\ config.provider = "custom"
    /\ config.api_key = Some("k")
    /\ config.base_url = None
    /\ disk[1] = File("utf8", MaxFileSize)
    /\ ret = Some(ValueError("base_url is required for custom provider"))
    /\ NothingStarted

Scanned(p) == \E i \in 1..Len(files) : files[i] = p

Processed(p) == \E i \in 1..Len(results) : results[i].file_path = p

\* C17: in a batch, a file larger than max_file_size is not in the result of
\* scan_directory, is not read for processing and is not sent to the LLM; a
\* file of exactly max_file_size bytes is in the result of the scan.
C17_OversizedExcluded ==
    mode = "batch" =>
        \A p \in Paths :
            /\ disk[p].size > MaxFileSize =>
                  /\ ~Scanned(p)
                  /\ ~Processed(p)
                  /\ cur # None => cur[1].file_path # p
                  /\ pc \in {"psf", "llm"} => files[idx] # p
            /\ (disk[p].cond # "absent" /\ disk[p].size = MaxFileSize) => Scanned(p)

C17_Witness ==
    /\ mode = "batch"
    /\ pc = "done"
    /\ disk[1] = File("utf8", MaxFileSize + 1)
    /\ disk[2] = File("utf8", MaxFileSize)
    /\ files = <<2>>
    /\ Len(results) = 1
    /\ results[1].file_path = 2
    /\ results[1].success

ResultsFor(p) == {j \in 1..Len(results) : results[j].file_path = p}

\* C18: in a batch every file returned by the directory scan has exactly one
\* ProcessingResult; a file whose read fails is in the results with
\* success = false.
C18_EveryScannedFileHasResult ==
    (mode = "batch" /\ pc = "done") =>
        /\ Len(results) = Len(files)
        /\ \A i \in 1..Len(files) :
              /\ Cardinality(ResultsFor(files[i])) = 1
              /\ (\/ ReadFile(disk, files[i]).kind = "raise"
                  \/ ReadFile(disk, files[i]).value[1] = None)
                 => \A j \in ResultsFor(files[i]) : ~results[j].success

ReadFails(p) == ReadFile(disk, p).kind = "raise" \/ ReadFile(disk, p).value[1] = None

\* C19: a generate_response call issues exactly one POST whatever its
\* outcome, and nothing retries: a POST goes out only as the one request of a
\* generate_response call made by process_single_file after a successful
\* read; a call whose read fails posts nothing, and the answer to the request,
\* good or bad, ends the call without another POST.
C19_OnePostPerCall ==
    [][/\ posts' \in {posts, posts + 1}
       /\ calls' - calls = posts' - posts
       /\ posts' = posts + 1 =>
             /\ pc = "psf"
             /\ ~ReadFails(files[idx])
             /\ pc' = "llm"
             /\ inflight' = 1
       /\ (pc = "psf" /\ ReadFails(files[idx])) => (posts' = posts /\ pc' # "llm")
       /\ pc = "llm" => /\ posts' = posts
                        /\ inflight' = 0
                        /\ pc' = NextFilePc
                        /\ Len(results') = Len(results) + 1
      ]_vars

C19_Witness ==
    /\ mode = "list"
    /\ pc = "done"
    /\ Len(results) = 2
    /\ ReadFails(files[1])
    /\ ~results[2].success
    /\ results[2].error_message[1].detail = "KeyError"
    /\ posts = 1
    /\ calls = 1

----------------------------------------------------------------------------
(* Request options (specification SpecOptions): a client built from a      *)
(* configuration with its own max_tokens and temperature serves one        *)
(* generate_response call with or without per-call options, one            *)
(* process_file_content call, or one stream_file_processing call.          *)

OptionConfigs ==
    {[AgentConfig(p) EXCEPT !.max_tokens = m, !.temperature = t] :
        p \in {"openai", "anthropic", "custom"},
        m \in {DefaultMaxTokens, 50},
        t \in {DefaultTemperatureTenths, 2}}

\* the options of a call: none, one of the two, or both
OptionValues ==
    {<<>>, [max_tokens |-> 20], [temperature |-> 15], [max_tokens |-> 20, temperature |-> 15]}

OptionMessages ==
    {<<>>,
     <<[role |-> "user", content |-> "A"]>>,
     <<[role |-> "system", content |-> "S"], [role |-> "user", content |-> "A"]>>}

InitOptions ==
    /\ config \in OptionConfigs
    /\ provider = CreateProvider(config).value
    /\ \/ /\ pc = "gen_idle"
          /\ request \in {Some([messages |-> ms, kwargs |-> kw]) :
                            ms \in OptionMessages, kw \in OptionValues}
          /\ AgentIdle
       \/ /\ pc = "pfc_idle"
          /\ request \in {Some([file_content |-> c, user_prompt |-> p]) :
                            c \in FileTexts, p \in UserPrompts}
          /\ AgentIdle
       \/ /\ pc = "st_idle"
          /\ request \in Prompts
          /\ mode = "stream"
          /\ disk = [p \in Paths |-> IF p = 1 THEN File("utf8", MaxFileSize) ELSE Absent]
          /\ files = <<1>>
          /\ idx = 1
          /\ cur = None
          /\ results = <<>>
    /\ inflight = 0
    /\ posts = 0
    /\ sent = None
    /\ ret = None
    /\ received = <<>>
    /\ words = <<>>
    /\ out = <<>>
    /\ calls = 0
    /\ provEnd = None

NextOptions ==
    \/ GenPost
    \/ GenReceive
    \/ PfcCall
    \/ StreamStart
    \/ StreamOpen
    \/ StreamLine
    \/ StreamEnd
    \/ StreamBroken
    \/ StreamGenerate
    \/ StreamWord

SpecOptions == InitOptions /\ [][NextOptions]_vars

(* Claims about request options (specification SpecOptions).               *)

\* the options the caller gave to the generate_response call in progress:
\* stream_file_processing and process_file_content give none
CallOptions == IF mode = "stream" THEN <<>> ELSE request[1].kwargs

\* the request in progress was made by stream_file_processing or by
\* process_file_content, whose conversation opens with the fixed system prompt
ThroughAgent ==
    \/ mode = "stream"
    \/ /\ Len(request[1].messages) >= 2
       /\ request[1].messages[1].content = SystemPrompt

----------------------------------------------------------------------------
(* The empty batch (specification Spec).                                   *)

\* C22: batch_process_with_summary over an empty set of files returns, with
\* every count, both times and the token total at zero and with empty results
\* and errors, and no HTTP request has been issued.
C22_EmptyBatch ==
    (mode = "batch" /\ files = <<>>) =>
        /\ posts = 0
        /\ inflight = 0
        /\ sent = None
        /\ results = <<>>
        /\ pc \in {"read_all", "summarise", "done"}
        /\ pc = "done" =>
              ret = Some(Return([total_files |-> 0,
                                 successful |-> 0,
                                 failed |-> 0,
                                 total_processing_time |-> 0,
                                 average_processing_time |-> 0,
                                 total_tokens |-> 0,
                                 results |-> <<>>,
                                 errors |-> <<>>]))

C22_Witness ==
    /\ mode = "batch"
    /\ pc = "done"
    /\ files = <<>>
    /\ disk[1] = File("utf8", MaxFileSize + 1)
    /\ ret # None
    /\ ret[1].kind = "return"
    /\ ret[1].value[1].total_files = 0
    /\ ret[1].value[1].average_processing_time = 0
    /\ posts = 0

=============================================================================
